---- MODULE Spec2Model ----
(***************************************************************************)
(* A model of the AXML decoder of apkdig: ReadAXML (package apkdig) and    *)
(* the resource-id block codec (package axml), as found in                 *)
(* src/axml/resourceidsblock.go.                                           *)
(*                                                                         *)
(* Numbers.  A Go uint32 is modelled exactly, as the pair <<hi, lo>> of    *)
(* its two 16-bit halves (TLC's integers stop at 2^31-1).  A uint16, a     *)
(* byte, a rune and a reader position are plain naturals.  The input of a  *)
(* decode is a sequence of bytes 0..255; reader positions count from 0.    *)
(***************************************************************************)
EXTENDS Integers, Sequences, FiniteSets, TLC

VARIABLES
    \* ---- ReadAXML (package apkdig) ----
    doc,        \* the chunks the input was built from (names of Catalog)
    input,      \* the bytes behind the io.ReadSeeker
    pos,        \* the reader's position
    axml,       \* the AXML value being filled in
    blocktype,  \* ReadAXML's local blocktype (declared outside the loop)
    size,       \* ReadAXML's local size (declared outside the loop)
    offset,     \* the loop variable offset
    pc,         \* "start" | "loop" | "done"
    err,        \* what ReadAXML returned: [msg, args]
    \* ---- resource-id codec (package axml) ----
    blk,        \* a ResourceIdsBlock: [Type, Size, Offset, Ids]
    data,       \* the bytes last handed to, or returned by, the codec
    op,         \* the codec call made last: [name, size]
    cerr        \* what that call returned

axmlVars == <<doc, input, pos, axml, blocktype, size, offset, pc, err>>
codecVars == <<blk, data, op, cerr>>
vars == <<doc, input, pos, axml, blocktype, size, offset, pc, err,
          blk, data, op, cerr>>

(***************************************************************************)
(* Bounds of the model.                                                    *)
(***************************************************************************)
MaxChunks == 2
MaxIds == 2

(***************************************************************************)
(* uint32 arithmetic on <<hi, lo>> pairs.                                  *)
(***************************************************************************)
Half == 65536

U(h, l) == <<h, l>>

Zero32 == U(0, 0)

Add32(a, b) ==
    LET lo == a[2] + b[2]
        hi == a[1] + b[1] + (lo \div Half)
    IN  U(hi % Half, lo % Half)

Lt32(a, b) == a[1] < b[1] \/ (a[1] = b[1] /\ a[2] < b[2])

\* A uint32 that is known to be small, as a natural number.
NatOf(u) == u[1] * Half + u[2]

(***************************************************************************)
(* The chunk vocabulary.                                                   *)
(***************************************************************************)
CHUNK_AXML_FILE == U(8, 3)
CHUNK_RESOURCEIDS == U(8, 384)
CHUNK_STRINGS == U(28, 1)
CHUNK_XML_END_NAMESPACE == U(16, 257)
CHUNK_XML_END_TAG == U(16, 259)
CHUNK_XML_START_NAMESPACE == U(16, 256)
CHUNK_XML_START_TAG == U(16, 258)
CHUNK_XML_TEXT == U(16, 260)
UTF8_FLAG == U(0, 256)
SKIP_BLOCK == U(65535, 65535)
TagFlagMagic == U(20, 20)

\* The cases of ReadAXML's switch that only print.
PrintOnlyTypes ==
    {CHUNK_RESOURCEIDS, CHUNK_XML_END_NAMESPACE, CHUNK_XML_END_TAG,
     CHUNK_XML_START_NAMESPACE, CHUNK_XML_TEXT}

KnownTypes == PrintOnlyTypes \cup {CHUNK_STRINGS, CHUNK_XML_START_TAG}

\* Flags & UTF8_FLAG != 0: bit 8 of the low half.
HasUtf8Flag(flags) == (flags[2] \div 256) % 2 = 1

(***************************************************************************)
(* encoding/binary, little endian, over a byte sequence.                   *)
(***************************************************************************)
LE16(n) == <<n % 256, n \div 256>>

LE32(u) == LE16(u[2]) \o LE16(u[1])

U16In(bytes, p) == bytes[p + 1] + 256 * bytes[p + 2]

U32In(bytes, p) == U(U16In(bytes, p + 2), U16In(bytes, p))

\* binary.Read of n bytes at position p succeeds (io.ReadFull of an empty
\* buffer succeeds anywhere).
CanRead(bytes, p, n) == n = 0 \/ p + n <= Len(bytes)

\* The reader's position after binary.Read of n bytes at p: a failed
\* io.ReadFull has consumed whatever was left.
After(bytes, p, n) ==
    IF p + n <= Len(bytes) THEN p + n
    ELSE IF p < Len(bytes) THEN Len(bytes) ELSE p

\* binary.Read into a uint32 that held old: a failed read leaves it as it was.
Get32(bytes, p, old) == IF CanRead(bytes, p, 4) THEN U32In(bytes, p) ELSE old

Get16(bytes, p, old) == IF CanRead(bytes, p, 2) THEN U16In(bytes, p) ELSE old

\* reader.Seek(int64(offset), 0).  Every input of the model is shorter than
\* 2^16 bytes, so a position with a non-zero high half is past the end and
\* is kept as 2^16: reads fail there as they do anywhere past the end.
SeekTo(off) == IF off[1] = 0 THEN off[2] ELSE Half

(***************************************************************************)
(* unicode/utf16.Decode, and string() of the runes (a string is kept as    *)
(* its sequence of runes).                                                 *)
(***************************************************************************)
Surr1 == 55296
Surr2 == 56320
Surr3 == 57344
SurrSelf == 65536
ReplacementChar == 65533

RECURSIVE Utf16Decode(_, _)
Utf16Decode(s, i) ==
    IF i > Len(s) THEN <<>>
    ELSE LET r == s[i] IN
         IF r < Surr1 \/ Surr3 <= r
         THEN <<r>> \o Utf16Decode(s, i + 1)
         ELSE IF Surr1 <= r /\ r < Surr2 /\ i + 1 <= Len(s)
                 /\ Surr2 <= s[i + 1] /\ s[i + 1] < Surr3
         THEN <<(r - Surr1) * 1024 + (s[i + 1] - Surr2) + SurrSelf>>
              \o Utf16Decode(s, i + 2)
         ELSE <<ReplacementChar>> \o Utf16Decode(s, i + 1)

(***************************************************************************)
(* The string-pool case of ReadAXML: its two loops.                        *)
(***************************************************************************)
\* for i < Nstrings: read an offset (a fresh variable, 0 when the read
\* fails) and append it.  [offs, pos]
RECURSIVE ReadDataOffsets(_, _, _)
ReadDataOffsets(bytes, p, n) ==
    IF n = 0 THEN [offs |-> <<>>, pos |-> p]
    ELSE LET o == Get32(bytes, p, Zero32)
             rest == ReadDataOffsets(bytes, After(bytes, p, 4), n - 1)
         IN  [offs |-> <<o>> \o rest.offs, pos |-> rest.pos]

\* for i < Nstrings: read a uint16 length, that many code units (zeros when
\* the read fails), append the decoded string, and skip two bytes unless
\* this was the last string.  [strs, pos]
RECURSIVE ReadUtf16Strings(_, _, _, _)
ReadUtf16Strings(bytes, p, i, n) ==
    IF i >= n THEN [strs |-> <<>>, pos |-> p]
    ELSE LET sz == Get16(bytes, p, 0)
             p1 == After(bytes, p, 2)
             stringbytes ==
                 IF CanRead(bytes, p1, 2 * sz)
                 THEN [k \in 1..sz |-> U16In(bytes, p1 + 2 * (k - 1))]
                 ELSE [k \in 1..sz |-> 0]
             p2 == After(bytes, p1, 2 * sz)
             p3 == IF i # n - 1 THEN p2 + 2 ELSE p2
             rest == ReadUtf16Strings(bytes, p3, i + 1, n)
         IN  [strs |-> <<Utf16Decode(stringbytes, 1)>> \o rest.strs,
              pos |-> rest.pos]

(***************************************************************************)
(* ReadAXML.                                                               *)
(***************************************************************************)
ZeroStringsMeta ==
    [Nstrings |-> Zero32, StyleOffsetCount |-> Zero32, Flags |-> Zero32,
     StringDataOffset |-> Zero32, Stylesoffset |-> Zero32, DataOffset |-> <<>>]

ZeroAXML ==
    [Header |-> Zero32, size |-> Zero32, stringsmeta |-> ZeroStringsMeta,
     Strings |-> <<>>]

Running == [msg |-> "(running)", args |-> <<>>]
NilError == [msg |-> "nil", args |-> <<>>]
WrongHeaderError == [msg |-> "AXML file has wrong header", args |-> <<>>]
UnknownChunkError(bt) == [msg |-> "Unkown chunk type: %X", args |-> <<bt>>]
SkipBlockError == [msg |-> "Error: Expected block 0xFFFFFFFF", args |-> <<>>]
FlagError(flag, at) ==
    [msg |-> "Expected flag 0x00140014, found %08X at %08X", args |-> <<flag, at>>]
\* axml.Strings[nameIdx] with nameIdx out of range: a run-time panic.
IndexPanic == [msg |-> "panic: runtime error: index out of range", args |-> <<>>]

\* A decoder that reports the word before the flag field.
FlagErrorOffsetShort(off) == Add32(off, U(0, 4 * 5))

\* The offset the flag error reports: offset+4*6.
FlagErrorOffset(off) == Add32(off, U(0, 4 * 6))

\* The chunk header as the loop reads it at the reader's position: a read
\* that fails leaves blocktype or size at the previous iteration's value.
HdrType == Get32(input, pos, blocktype)
HdrSize == Get32(input, After(input, pos, 4), size)
HdrEnd == After(input, After(input, pos, 4), 4)

InLoop == pc = "loop" /\ Lt32(offset, axml.size)

\* return axml, err
Return(e, p, bt, sz) ==
    /\ pc' = "done"
    /\ err' = e
    /\ pos' = p
    /\ blocktype' = bt
    /\ size' = sz
    /\ UNCHANGED offset

\* The end of the loop body: offset += size; reader.Seek(int64(offset), 0).
Advance(bt, sz) ==
    /\ blocktype' = bt
    /\ size' = sz
    /\ offset' = Add32(offset, sz)
    /\ pos' = SeekTo(Add32(offset, sz))
    /\ UNCHANGED <<pc, err>>

\* The file header: the magic word, then the total size.
ReadFileHeader ==
    /\ pc = "start"
    /\ LET hdr == Get32(input, pos, axml.Header)
           p1 == After(input, pos, 4)
       IN  IF hdr # CHUNK_AXML_FILE
           THEN /\ axml' = [axml EXCEPT !.Header = hdr]
                /\ Return(WrongHeaderError, p1, blocktype, size)
           ELSE /\ axml' = [axml EXCEPT !.Header = hdr,
                                        !.size = Get32(input, p1, axml.size)]
                /\ pos' = After(input, p1, 4)
                /\ offset' = U(0, 8)
                /\ pc' = "loop"
                /\ UNCHANGED <<blocktype, size, err>>
    /\ UNCHANGED <<doc, input>>
    /\ UNCHANGED codecVars

\* offset < axml.size fails: return axml, nil.
LoopExit ==
    /\ pc = "loop"
    /\ ~Lt32(offset, axml.size)
    /\ Return(NilError, pos, blocktype, size)
    /\ UNCHANGED <<doc, input, axml>>
    /\ UNCHANGED codecVars

\* A case that only prints the offset and the size.
PrintOnly ==
    /\ Advance(HdrType, HdrSize)
    /\ UNCHANGED <<doc, input, axml>>
    /\ UNCHANGED codecVars

\* A decoder whose default case skips the chunk instead of returning.
UnknownChunkSkipped ==
    /\ InLoop
    /\ HdrType \notin KnownTypes
    /\ PrintOnly

\* default: return an error naming the chunk type.
UnknownChunk ==
    /\ InLoop
    /\ HdrType \notin KnownTypes
    /\ Return(UnknownChunkError(HdrType), HdrEnd, HdrType, HdrSize)
    /\ UNCHANGED <<doc, input, axml>>
    /\ UNCHANGED codecVars

\* case CHUNK_RESOURCEIDS
ResourceIdsChunk ==
    /\ InLoop
    /\ HdrType = CHUNK_RESOURCEIDS
    /\ PrintOnly

\* case CHUNK_XML_END_NAMESPACE
EndNamespaceChunk ==
    /\ InLoop
    /\ HdrType = CHUNK_XML_END_NAMESPACE
    /\ PrintOnly

\* case CHUNK_XML_END_TAG
EndTagChunk ==
    /\ InLoop
    /\ HdrType = CHUNK_XML_END_TAG
    /\ PrintOnly

\* case CHUNK_XML_START_NAMESPACE
StartNamespaceChunk ==
    /\ InLoop
    /\ HdrType = CHUNK_XML_START_NAMESPACE
    /\ PrintOnly

\* case CHUNK_XML_TEXT
TextChunk ==
    /\ InLoop
    /\ HdrType = CHUNK_XML_TEXT
    /\ PrintOnly

\* The strings a string-pool chunk adds to axml.Strings: none in the UTF-8
\* branch (binary.Read into a *string reads nothing and fails).
PoolStrings(flags, p, n) ==
    IF HasUtf8Flag(flags) THEN <<>>
    ELSE ReadUtf16Strings(input, p, 0, n).strs

\* case CHUNK_STRINGS
StringsChunk ==
    /\ InLoop
    /\ HdrType = CHUNK_STRINGS
    /\ LET m == axml.stringsmeta
           p0 == HdrEnd
           p1 == After(input, p0, 4)
           p2 == After(input, p1, 4)
           p3 == After(input, p2, 4)
           p4 == After(input, p3, 4)
           p5 == After(input, p4, 4)
           nstrings == Get32(input, p0, m.Nstrings)
           flags == Get32(input, p2, m.Flags)
           n == NatOf(nstrings)
           offs == ReadDataOffsets(input, p5, n)
       IN  axml' =
             [axml EXCEPT
                !.stringsmeta =
                    [Nstrings |-> nstrings,
                     StyleOffsetCount |-> Get32(input, p1, m.StyleOffsetCount),
                     Flags |-> flags,
                     StringDataOffset |-> Get32(input, p3, m.StringDataOffset),
                     Stylesoffset |-> Get32(input, p4, m.Stylesoffset),
                     DataOffset |-> m.DataOffset \o offs.offs],
                !.Strings = axml.Strings \o PoolStrings(flags, offs.pos, n)]
    /\ Advance(HdrType, HdrSize)
    /\ UNCHANGED <<doc, input>>
    /\ UNCHANGED codecVars

\* axml.Strings[nameIdx] is inside the slice.
NameIdxInRange(nameIdx) == nameIdx[1] = 0 /\ nameIdx[2] < Len(axml.Strings)

\* case CHUNK_XML_START_TAG
StartTagChunk ==
    /\ InLoop
    /\ HdrType = CHUNK_XML_START_TAG
    /\ LET p0 == HdrEnd
           p1 == After(input, p0, 4)
           p2 == After(input, p1, 4)
           p3 == After(input, p2, 4)
           p4 == After(input, p3, 4)
           p5 == After(input, p4, 4)
           skip == Get32(input, p1, Zero32)
           nameIdx == Get32(input, p3, Zero32)
           flag == Get32(input, p4, Zero32)
       IN  IF skip # SKIP_BLOCK
           THEN Return(SkipBlockError, p2, HdrType, HdrSize)
           ELSE IF flag # TagFlagMagic
           THEN Return(FlagError(flag, FlagErrorOffset(offset)), p5,
                       HdrType, HdrSize)
           \* binary.Read into a *uint reads nothing; then the Printf indexes.
           ELSE IF ~NameIdxInRange(nameIdx)
           THEN Return(IndexPanic, p5, HdrType, HdrSize)
           ELSE Advance(HdrType, HdrSize)
    /\ UNCHANGED <<doc, input, axml>>
    /\ UNCHANGED codecVars

(***************************************************************************)
(* The inputs of the model: documents laid out as the format comments of   *)
(* the source describe, built from a catalog of chunks, and cut short.     *)
(***************************************************************************)
RECURSIVE Words(_)
Words(ws) == IF ws = <<>> THEN <<>> ELSE LE32(Head(ws)) \o Words(Tail(ws))

RECURSIVE Units(_)
Units(us) == IF us = <<>> THEN <<>> ELSE LE16(Head(us)) \o Units(Tail(us))

\* Blocktype, Size, then what depends on the block type.
Chunk(type, sz, body) == LE32(type) \o LE32(sz) \o body

\* UTF-16LE string data: a length, the code units, a terminator.
RECURSIVE Utf16Data(_)
Utf16Data(strs) ==
    IF strs = <<>> THEN <<>>
    ELSE LE16(Len(Head(strs))) \o Units(Head(strs)) \o LE16(0)
         \o Utf16Data(Tail(strs))

RECURSIVE Utf16Offsets(_, _)
Utf16Offsets(strs, at) ==
    IF strs = <<>> THEN <<>>
    ELSE <<U(0, at)>> \o Utf16Offsets(Tail(strs), at + 2 * Len(Head(strs)) + 4)

Pad4(bytes) == bytes \o [i \in 1..((4 - (Len(bytes) % 4)) % 4) |-> 0]

\* A string-pool chunk: Nstrings, StyleOffsetCount, Flags, StringDataOffset,
\* Stylesoffset, the offsets, the string data.
PoolChunk(flags, offs, strdata) ==
    LET n == Len(offs)
        body == Words(<<U(0, n), Zero32, flags, U(0, 28 + 4 * n), Zero32>>)
                \o Words(offs) \o Pad4(strdata)
    IN  Chunk(CHUNK_STRINGS, U(0, 8 + Len(body)), body)

PoolStrs == << <<97>>, <<55357, 56832, 98>> >>

\* A tag-start chunk: lineNumber, skip, nsIdx, nameIdx, flag, attributeCount
\* and the three 16-bit indices that follow it.
TagChunk(skip, nameIdx, flag) ==
    Chunk(CHUNK_XML_START_TAG, U(0, 36),
          Words(<<U(0, 7), skip, SKIP_BLOCK, U(0, nameIdx), flag>>)
          \o Units(<<0, 0, 0, 0>>))

\* A namespace or tag-end chunk: lineNumber, skip and two indices.
EventChunk(type, skip) ==
    Chunk(type, U(0, 24), Words(<<U(0, 7), skip, Zero32, U(0, 1)>>))

ChunkNames ==
    {"STR16", "STR16_EMPTY", "STR8",
     "RES8", "RES12", "RES13", "RES0", "RES_HUGE",
     "NS_START", "NS_START_BADSKIP", "NS_END", "NS_END_BADSKIP",
     "TAG0", "TAG1", "TAG_OUTOFRANGE", "TAG_BADFLAG", "TAG_BADSKIP",
     "TAG_BADBOTH", "END_TAG", "TEXT", "UNKNOWN"}

Catalog(name) ==
    CASE name = "STR16" ->
           PoolChunk(Zero32, Utf16Offsets(PoolStrs, 0), Utf16Data(PoolStrs))
      [] name = "STR16_EMPTY" -> PoolChunk(Zero32, <<>>, <<>>)
      [] name = "STR8" -> PoolChunk(UTF8_FLAG, <<Zero32>>, <<1, 1, 97, 0>>)
      [] name = "RES8" -> Chunk(CHUNK_RESOURCEIDS, U(0, 8), <<>>)
      [] name = "RES12" ->
           Chunk(CHUNK_RESOURCEIDS, U(0, 12), Words(<<U(257, 3)>>))
      [] name = "RES13" ->
           Chunk(CHUNK_RESOURCEIDS, U(0, 13), Words(<<U(257, 3)>>) \o <<9>>)
      [] name = "RES0" -> Chunk(CHUNK_RESOURCEIDS, Zero32, <<>>)
      [] name = "RES_HUGE" -> Chunk(CHUNK_RESOURCEIDS, U(65535, 65528), <<>>)
      [] name = "NS_START" -> EventChunk(CHUNK_XML_START_NAMESPACE, SKIP_BLOCK)
      [] name = "NS_START_BADSKIP" ->
           EventChunk(CHUNK_XML_START_NAMESPACE, Zero32)
      [] name = "NS_END" -> EventChunk(CHUNK_XML_END_NAMESPACE, SKIP_BLOCK)
      [] name = "NS_END_BADSKIP" ->
           EventChunk(CHUNK_XML_END_NAMESPACE, U(65535, 65534))
      [] name = "TAG0" -> TagChunk(SKIP_BLOCK, 0, TagFlagMagic)
      [] name = "TAG1" -> TagChunk(SKIP_BLOCK, 1, TagFlagMagic)
      [] name = "TAG_OUTOFRANGE" -> TagChunk(SKIP_BLOCK, 2, TagFlagMagic)
      [] name = "TAG_BADFLAG" -> TagChunk(SKIP_BLOCK, 0, U(20, 19))
      [] name = "TAG_BADSKIP" -> TagChunk(Zero32, 0, TagFlagMagic)
      [] name = "TAG_BADBOTH" -> TagChunk(Zero32, 0, U(20, 19))
      [] name = "END_TAG" -> EventChunk(CHUNK_XML_END_TAG, SKIP_BLOCK)
      [] name = "TEXT" ->
           Chunk(CHUNK_XML_TEXT, U(0, 28),
                 Words(<<U(0, 7), SKIP_BLOCK, Zero32, U(0, 8), Zero32>>))
      [] name = "UNKNOWN" -> Chunk(U(16, 261), U(0, 8), <<>>)

RECURSIVE Body(_)
Body(d) == IF d = <<>> THEN <<>> ELSE Catalog(Head(d)) \o Body(Tail(d))

\* Header, FileSize, then the blocks.
Document(magic, d) ==
    LET body == Body(d)
    IN  LE32(magic) \o LE32(U(0, 8 + Len(body))) \o body

\* Where chunk k+1 of d starts in the document (k = Len(d): its end).
Boundary(d, k) == 8 + Len(Body(SubSeq(d, 1, k)))

Docs == UNION {[1..n -> ChunkNames] : n \in 0..MaxChunks}

Magics == {CHUNK_AXML_FILE, U(8, 2)}

\* The lengths a document is cut to: nothing, the magic word alone, every
\* chunk boundary, and the type word after a boundary.
Cuts(d) ==
    LET total == Boundary(d, Len(d))
        bs == {Boundary(d, k) : k \in 0..Len(d)}
    IN  {0, 4} \cup bs \cup {b + 4 : b \in bs \ {total}}

AxmlInit ==
    /\ doc \in Docs
    /\ \E magic \in Magics, cut \in Cuts(doc) :
          input = SubSeq(Document(magic, doc), 1, cut)
    /\ pos = 0
    /\ axml = ZeroAXML
    /\ blocktype = Zero32
    /\ size = Zero32
    /\ offset = Zero32
    /\ pc = "start"
    /\ err = Running

(***************************************************************************)
(* The resource-id codec (package axml).                                   *)
(*                                                                         *)
(* A []uint32 is [len, elems]: its length as a uint32 and its leading      *)
(* elements, every element past elems being 0.  A slice of fewer than 2^16 *)
(* elements carries all of them, so that Len(elems) = len.                 *)
(***************************************************************************)
Div4(u) == U(u[1] \div 4, (u[1] % 4) * (Half \div 4) + u[2] \div 4)

\* Size/4 - 2 in uint32: it wraps around for a Size below 8.
IdCount(sz) == Add32(Div4(sz), U(65535, 65534))

Slice(elems) == [len |-> U(0, Len(elems)), elems |-> elems]

ZeroBlock == [Type |-> Zero32, Size |-> Zero32, Offset |-> 0, Ids |-> Slice(<<>>)]

\* for i < count: binary.Read into Ids[i], the errors ignored
\* (ReadResourceIdsBlock): an element whose read fails stays 0.
RECURSIVE ReadIdsLenient(_, _, _)
ReadIdsLenient(bytes, p, n) ==
    IF n = 0 THEN <<>>
    ELSE <<Get32(bytes, p, Zero32)>>
         \o ReadIdsLenient(bytes, After(bytes, p, 4), n - 1)

\* The ids that bytes holds from p on, at most n of them.
RECURSIVE ReadablePrefix(_, _, _)
ReadablePrefix(bytes, p, n) ==
    IF n = 0 \/ ~CanRead(bytes, p, 4) THEN <<>>
    ELSE <<U32In(bytes, p)>> \o ReadablePrefix(bytes, p + 4, n - 1)

\* make([]uint32, count) and the reads into it, for a count below 2^16;
\* a larger count leaves the slice with what the data holds and zeros.
MadeSlice(count, read) ==
    IF count[1] = 0
    THEN Slice(read \o [i \in 1..(count[2] - Len(read)) |-> Zero32])
    ELSE [len |-> count, elems |-> read]

\* What io.ReadFull reports for a read of n bytes at p that fails.
ReadError(bytes, p) == IF p >= Len(bytes) THEN "EOF" ELSE "unexpected EOF"

\* make([]uint32, count) may fail for a count of 2^16 elements or more: the
\* run time panics (len out of range) or runs out of memory.
MakeMayFail(count) == count[1] # 0

\* The size word UnmarshalBinary reads.
UnmarshalSize(d) == U32In(d, 4)

\* (b *ResourceIdsBlock) UnmarshalBinary(data): the set of its outcomes,
\* each [b, err].
UnmarshalBinary(b, d) ==
    IF ~CanRead(d, 0, 4) THEN {[b |-> b, err |-> ReadError(d, 0)]}
    ELSE LET b1 == [b EXCEPT !.Type = U32In(d, 0)] IN
    IF b1.Type # CHUNK_RESOURCEIDS
    THEN {[b |-> b1, err |-> "Expected type=%X, got type=%X"]}
    ELSE IF ~CanRead(d, 4, 4) THEN {[b |-> b1, err |-> ReadError(d, 4)]}
    ELSE LET b2 == [b1 EXCEPT !.Size = UnmarshalSize(d)]
             count == IdCount(b2.Size)
             avail == (Len(d) - 8) \div 4
             want == IF count[1] = 0 THEN count[2] ELSE avail + 1
             read == ReadablePrefix(d, 8, want)
             b3 == [b2 EXCEPT !.Ids = MadeSlice(count, read)]
             done == [b |-> b3,
                      err |-> IF Len(read) = want THEN "nil"
                              ELSE ReadError(d, 8 + 4 * Len(read))]
         IN  IF MakeMayFail(count)
             THEN {done, [b |-> b2, err |-> "panic: makeslice"]}
             ELSE {done}

\* (b ResourceIdsBlock) MarshalBinary(): Type, Size, then every id.
MarshalBinary(b) == LE32(b.Type) \o LE32(b.Size) \o Words(b.Ids.elems)

\* ReadResourceIdsBlock(reader, size, offset): the set of its outcomes.
ReadResourceIdsBlock(bytes, sz, off) ==
    LET count == IdCount(sz)
        rid == [Type |-> CHUNK_RESOURCEIDS, Size |-> sz, Offset |-> off,
                Ids |-> Slice(<<>>)]
        ids == IF count[1] = 0
               THEN Slice(ReadIdsLenient(bytes, off, count[2]))
               ELSE MadeSlice(count, ReadablePrefix(bytes, off, Len(bytes)))
        done == [b |-> [rid EXCEPT !.Ids = ids], err |-> "nil"]
    IN  IF MakeMayFail(count)
        THEN {done, [b |-> rid, err |-> "panic: makeslice"]}
        ELSE {done}

\* ---- the codec's inputs ----
IdVals == {U(0, 1), U(257, 3)}

IdSeqs(n) == UNION {[1..k -> IdVals] : k \in 0..n}

DeclaredSizes == {U(0, 0), U(0, 4), U(0, 8), U(0, 12), U(0, 13), U(0, 16)}

\* The first n bytes of bytes (all of them when it is shorter).
Truncate(bytes, n) == SubSeq(bytes, 1, IF n < Len(bytes) THEN n ELSE Len(bytes))

\* Chunks as a caller may hand them in: any declared size over any ids, whole
\* or cut short.
CodecInputs ==
    {Truncate(Chunk(t, sz, Words(ids)), cut) :
        t \in {CHUNK_RESOURCEIDS, CHUNK_STRINGS}, sz \in DeclaredSizes,
        ids \in IdSeqs(MaxIds), cut \in {2, 6, 8, 10, 12, 16}}

NoCall == [name |-> "none", size |-> Zero32, src |-> <<>>]

\* A caller holds a zero-valued block and some bytes.
CodecInit ==
    /\ blk = ZeroBlock
    /\ data \in CodecInputs
    /\ op = NoCall
    /\ cerr = "nil"

\* blk.UnmarshalBinary(data): the bytes are the caller's input, or what the
\* last MarshalBinary returned (src then carries the block they came from).
Unmarshal ==
    /\ cerr # "panic: makeslice"
    /\ \E r \in UnmarshalBinary(blk, data) :
          /\ blk' = r.b
          /\ cerr' = r.err
    /\ op' = [name |-> "UnmarshalBinary",
              size |-> IF CanRead(data, 4, 4) THEN UnmarshalSize(data)
                       ELSE Zero32,
              src |-> IF op.name = "MarshalBinary" THEN op.src ELSE <<>>]
    /\ UNCHANGED data
    /\ UNCHANGED axmlVars

\* blk, err = ReadResourceIdsBlock(bytes.NewReader(data), sz, off)
ReadBlock ==
    /\ cerr # "panic: makeslice"
    /\ \E sz \in DeclaredSizes, off \in {0, 8} :
         \E r \in ReadResourceIdsBlock(data, sz, off) :
            /\ blk' = r.b
            /\ cerr' = r.err
            /\ op' = [name |-> "ReadResourceIdsBlock", size |-> sz, src |-> <<>>]
    /\ UNCHANGED data
    /\ UNCHANGED axmlVars

\* A caller changes the exported field Ids: appends an id ...
AppendId ==
    /\ cerr # "panic: makeslice"
    /\ blk.Ids.len[1] = 0
    /\ Len(blk.Ids.elems) < MaxIds
    /\ \E v \in IdVals :
         blk' = [blk EXCEPT !.Ids = Slice(blk.Ids.elems \o <<v>>)]
    /\ op' = [name |-> "append", size |-> Zero32, src |-> <<>>]
    /\ UNCHANGED <<data, cerr>>
    /\ UNCHANGED axmlVars

\* ... or drops the last one.
RemoveId ==
    /\ cerr # "panic: makeslice"
    /\ blk.Ids.len[1] = 0
    /\ blk.Ids.elems # <<>>
    /\ blk' = [blk EXCEPT !.Ids =
                 Slice(SubSeq(blk.Ids.elems, 1, Len(blk.Ids.elems) - 1))]
    /\ op' = [name |-> "remove", size |-> Zero32, src |-> <<>>]
    /\ UNCHANGED <<data, cerr>>
    /\ UNCHANGED axmlVars

\* A caller encodes the block (one whose ids the model can write out).
Marshal ==
    /\ cerr # "panic: makeslice"
    /\ blk.Ids.len[1] = 0
    /\ data' = MarshalBinary(blk)
    /\ cerr' = "nil"
    /\ op' = [name |-> "MarshalBinary", size |-> blk.Size, src |-> <<blk>>]
    /\ UNCHANGED blk
    /\ UNCHANGED axmlVars

(***************************************************************************)
(* The specifications.                                                     *)
(***************************************************************************)
Init ==
    /\ AxmlInit
    /\ blk = ZeroBlock
    /\ data = <<>>
    /\ op = NoCall
    /\ cerr = "nil"

Next ==
    \/ ReadFileHeader
    \/ LoopExit
    \/ UnknownChunk
    \/ ResourceIdsChunk
    \/ EndNamespaceChunk
    \/ EndTagChunk
    \/ StartNamespaceChunk
    \/ TextChunk
    \/ StringsChunk
    \/ StartTagChunk

Spec == Init /\ [][Next]_vars

\* The codec on its own, beside a decoder that is never started.
CodecStart ==
    /\ CodecInit
    /\ doc = <<>>
    /\ input = <<>>
    /\ pos = 0
    /\ axml = ZeroAXML
    /\ blocktype = Zero32
    /\ size = Zero32
    /\ offset = Zero32
    /\ pc = "idle"
    /\ err = Running

CodecNext == Unmarshal \/ ReadBlock \/ AppendId \/ RemoveId \/ Marshal

CodecSpec == CodecStart /\ [][CodecNext]_vars

(***************************************************************************)
(* The error kinds of the specification, as the decoder's errors name them.*)
(***************************************************************************)
ErrorKind(e) ==
    CASE e.msg = NilError.msg -> "nil"
      [] e.msg = WrongHeaderError.msg -> "BadMagic"
      [] e.msg = UnknownChunkError(Zero32).msg -> "UnknownChunkType"
      [] e.msg = SkipBlockError.msg -> "BadSentinel"
      [] e.msg = FlagError(Zero32, Zero32).msg -> "BadMagic"
      [] e.msg = IndexPanic.msg -> "panic"
      [] OTHER -> "none"

\* The errors the codec returns (a panic is not one of them).
CodecErrors == {"EOF", "unexpected EOF", "Expected type=%X, got type=%X"}

(***************************************************************************)
(* The claims.                                                             *)
(***************************************************************************)

\* C1: decoding the bytes MarshalBinary returned for a block succeeds and
\* yields that block's ids, element for element.
C1_RoundTrip ==
    (op.name = "UnmarshalBinary" /\ op.src # <<>>)
        => (cerr = "nil" /\ blk.Ids = op.src[1].Ids)

\* C2: the size word MarshalBinary writes is 8 + 4*count for the ids the
\* block holds when it is encoded, and equals the length of the bytes.
C2_SizeRecomputed ==
    op.name = "MarshalBinary"
        => /\ U32In(data, 4) = U(0, 8 + 4 * Len(blk.Ids.elems))
           /\ NatOf(U32In(data, 4)) = Len(data)

\* C3: a decode of a resource-id chunk whose declared size is not a multiple
\* of 4 or is below 8 returns an error; a decode that succeeds yields
\* declared_size/4 - 2 ids (none for a declared size of 8).
C3_BadSizeRejected ==
    LET decoded ==
            \/ op.name = "ReadResourceIdsBlock"
            \/ /\ op.name = "UnmarshalBinary"
               /\ CanRead(data, 0, 8)
               /\ U32In(data, 0) = CHUNK_RESOURCEIDS
        bad == op.size[2] % 4 # 0 \/ Lt32(op.size, U(0, 8))
    IN  decoded =>
           IF bad THEN cerr \in CodecErrors
           ELSE cerr = "nil" =>
                   blk.Ids.len = U(0, NatOf(op.size) \div 4 - 2)

\* C4: the decoder never indexes Strings outside 0..len-1: a name index that
\* is out of range ends the decode with an error, not with a panic.
C4_IndexChecked == ErrorKind(err) # "panic"

\* C5: every iteration of the loop that does not return leaves the offset
\* strictly larger than it found it.
C5_OffsetIncreases ==
    [][(pc = "loop" /\ pc' = "loop") => Lt32(offset, offset')]_vars

\* The well-formed chunks that may follow the string pool of a valid document.
WellFormedEvents ==
    {"RES8", "RES12", "NS_START", "NS_END", "TAG0", "TAG1", "END_TAG", "TEXT"}

ValidDoc(d) ==
    /\ d # <<>>
    /\ d[1] = "STR16"
    /\ \A i \in 2..Len(d) : d[i] \in WellFormedEvents

\* The input is a valid document cut at a chunk boundary, its file header
\* still declaring the whole length.
TruncatedAtBoundary ==
    /\ ValidDoc(doc)
    /\ Len(input) \in {Boundary(doc, k) : k \in 0..(Len(doc) - 1)}
    /\ U32In(input, 0) = CHUNK_AXML_FILE

\* C6: ReadAXML of a valid document cut at a chunk boundary returns an error.
C6_TruncationDetected ==
    (pc = "done" /\ TruncatedAtBoundary)
        => ErrorKind(err) \notin {"nil", "panic", "none"}

\* C7: a chunk header whose type word, read at the current offset, is none of
\* the seven known types ends the decode there with an unknown-chunk error,
\* and a file whose first word is not the magic is rejected before any chunk
\* header is read.
C7_UnknownNeverSkipped ==
    [][/\ (/\ InLoop
           /\ CanRead(input, SeekTo(offset), 4)
           /\ U32In(input, SeekTo(offset)) \notin KnownTypes)
          => /\ pc' = "done"
             /\ err' = UnknownChunkError(U32In(input, SeekTo(offset)))
             /\ axml' = axml
             /\ offset' = offset
       /\ (pc = "start" /\ Get32(input, 0, Zero32) # CHUNK_AXML_FILE)
          => /\ pc' = "done"
             /\ ErrorKind(err') = "BadMagic"
             /\ blocktype' = blocktype
             /\ size' = size
             /\ pos' <= 4]_vars

\* The decode has stopped at an unknown chunk that another chunk follows.
C7_Witness ==
    /\ pc = "done"
    /\ ErrorKind(err) = "UnknownChunkType"
    /\ err.args = <<U(16, 261)>>
    /\ Len(doc) = 2
    /\ doc[1] = "UNKNOWN"
    /\ Len(input) = Boundary(doc, 2)

\* C8 as claimed: a tag-start chunk that the loop reaches and whose flag word
\* is not 0x00140014 ends the decode with the flag error, which reports the
\* position of the flag field: where the chunk starts plus 24.
C8_AnyBadFlagIsFlagError ==
    [][(/\ InLoop
        /\ CanRead(input, pos, 28)
        /\ U32In(input, pos) = CHUNK_XML_START_TAG
        /\ U32In(input, pos + 24) # TagFlagMagic)
       => /\ pc' = "done"
          /\ ErrorKind(err') = "BadMagic"
          /\ err'.args = <<U32In(input, pos + 24), U(0, pos + 24)>>]_vars

\* C8, amended: a tag-start chunk that the loop reaches, whose skip word is
\* 0xFFFFFFFF and whose flag word is not 0x00140014, ends the decode with the
\* flag error, which reports the flag word and the position of the flag
\* field: where the chunk starts plus 24.
C8_FlagErrorAtFlagField ==
    [][(/\ InLoop
        /\ CanRead(input, pos, 28)
        /\ U32In(input, pos) = CHUNK_XML_START_TAG
        /\ U32In(input, pos + 12) = SKIP_BLOCK
        /\ U32In(input, pos + 24) # TagFlagMagic)
       => /\ pc' = "done"
          /\ ErrorKind(err') = "BadMagic"
          /\ err'.args = <<U32In(input, pos + 24), U(0, pos + 24)>>]_vars

\* The decode has stopped with the flag error at a tag-start chunk that is
\* the second chunk of the document.
C8_Witness ==
    /\ pc = "done"
    /\ err.msg = FlagError(Zero32, Zero32).msg
    /\ Len(doc) = 2
    /\ doc[2] = "TAG_BADFLAG"
    /\ err.args = <<U(20, 19), U(0, Boundary(doc, 1) + 24)>>

\* C9: a namespace-start, namespace-end or tag-start chunk whose skip word is
\* not 0xFFFFFFFF ends the decode with the sentinel error.
C9_SentinelValidated ==
    [][(/\ InLoop
        /\ CanRead(input, pos, 16)
        /\ U32In(input, pos) \in
              {CHUNK_XML_START_NAMESPACE, CHUNK_XML_END_NAMESPACE,
               CHUNK_XML_START_TAG}
        /\ U32In(input, pos + 12) # SKIP_BLOCK)
       => (pc' = "done" /\ ErrorKind(err') = "BadSentinel")]_vars

\* C10: a document ReadAXML returns without an error has as many recorded
\* string offsets as decoded strings.
C10_OffsetsMatchStrings ==
    (pc = "done" /\ ErrorKind(err) = "nil")
        => Len(axml.stringsmeta.DataOffset) = Len(axml.Strings)

====
